---- MODULE Spec2Model ----
(***************************************************************************)
(* Buffer manager (pinPage / unpinPage / markDirty / forcePage /           *)
(* forceFlushPool / shutdownBufferPool / initBufferPool) over the storage  *)
(* manager (openPageFile / closePageFile / readBlock / writeBlock /        *)
(* appendEmptyBlock / ensureCapacity), and the storage manager used        *)
(* directly (createPageFile / destroyPageFile / the read and write calls). *)
(*                                                                         *)
(* A page's PAGE_SIZE bytes are abstracted to one value of 0..MaxVal, 0    *)
(* being the zero-filled page.  Pointers to frames are frame indices, the  *)
(* null pointer is NULL.  Every C function is an operator from the values  *)
(* it reads to a record of the values it leaves behind; an action applies  *)
(* one API call as a whole.                                                *)
(***************************************************************************)
EXTENDS Integers, Sequences, FiniteSets, TLC

\* ------------------------------------------------------------------ bounds
NumFrames == 2      \* numPages handed to initBufferPool
MaxPage == 2        \* page ids requested by the client: NO_PAGE..MaxPage
MaxVal == 1         \* page contents: 0..MaxVal
MaxPin == 2         \* cap on Frame.pinCount (an int in the code)
MaxReadIO == 4      \* cap on readIO (unsigned in the code)
MaxWriteIO == 2     \* cap on writeIO (unsigned in the code)
NumCtx == 2         \* addresses malloc hands out for a FileContext
MaxFilePages == 3   \* cap on the pages of a file of the storage-manager client

\* --------------------------------------------------------------- constants
NO_PAGE == -1
NULL == -1

RC_OK == "RC_OK"
RC_FILE_NOT_FOUND == "RC_FILE_NOT_FOUND"
RC_FILE_HANDLE_NOT_INIT == "RC_FILE_HANDLE_NOT_INIT"
RC_WRITE_FAILED == "RC_WRITE_FAILED"
RC_READ_NON_EXISTING_PAGE == "RC_READ_NON_EXISTING_PAGE"

RS_FIFO == "RS_FIFO"
RS_LRU == "RS_LRU"
RS_LRU_K == "RS_LRU_K"

\* The strategies a pool is initialised with.
Strategies == {RS_FIFO, RS_LRU}

\* Outcome of the operating-system calls made by one API call: w for the
\* fwrite of writeBlock, a for the fwrite of appendEmptyBlock, r for the
\* fread of readBlock.  TRUE: the call transfers the whole page.
IoOK == [w |-> TRUE, a |-> TRUE, r |-> TRUE]

VARIABLES
    disk,       \* the page file: sequence of page contents, page i at i + 1
    mgmtData,   \* bm->mgmtData # NULL
    md,         \* *bm->mgmtData, the PoolMetadata
    ret,        \* the last API call that returned RC_OK or met a NULL mgmtData
    loadSeq,    \* history: frames in the order their current page was loaded
    useSeq,     \* history: frames in the order of their latest successful pin
    fixes       \* history: per page, the successful pins less the successful
                \* unpins since the pinPage that last loaded the page

\* The storage manager used directly, without a pool.
VARIABLES
    files,          \* the directory: name -> [exists, pages, tail]
    heap,           \* the FileContext at each address malloc hands out
    handle,         \* the client's SM_FileHandle variables
    globalOpenCtx,  \* the static FileContext *globalOpenCtx
    smRet           \* the last storage-manager call and its return code

bmVars == <<disk, mgmtData, md, ret, loadSeq, useSeq, fixes>>
smVars == <<files, heap, handle, globalOpenCtx, smRet>>
vars == <<disk, mgmtData, md, ret, loadSeq, useSeq, fixes,
          files, heap, handle, globalOpenCtx, smRet>>

\* ========================================================= storage manager

\* SM_FileHandle with its FileContext: open is mgmtInfo # NULL, pages is
\* ctx->pages.
ClosedHandle == [open |-> FALSE, totalNumPages |-> 0, curPagePos |-> 0, pages |-> 0]

\* openPageFile on the existing file d.
openPageFile(d) ==
    [rc |-> RC_OK,
     fh |-> [open |-> TRUE, totalNumPages |-> Len(d), curPagePos |-> 0,
             pages |-> Len(d)]]

\* closePageFile: fclose, free the context, clear the handle.
closePageFile(fh) ==
    IF ~fh.open THEN [rc |-> RC_FILE_HANDLE_NOT_INIT, fh |-> fh]
    ELSE [rc |-> RC_OK, fh |-> ClosedHandle]

\* seekToPageNum: RC_OK iff the handle is open and pageNum is inside the file.
seekToPageNum(pageNum, fh) ==
    IF ~fh.open THEN RC_FILE_HANDLE_NOT_INIT
    ELSE IF pageNum < 0 \/ pageNum >= fh.totalNumPages THEN RC_READ_NON_EXISTING_PAGE
    ELSE RC_OK

\* A readBlock that leaves the cursor where it was.
readBlockKeepsCursor(pageNum, fh, d, memPage, ok) ==
    IF ~fh.open THEN [rc |-> RC_FILE_HANDLE_NOT_INIT, fh |-> fh, mem |-> memPage]
    ELSE IF pageNum < 0 \/ pageNum >= fh.totalNumPages \/ ~ok \/ pageNum >= Len(d)
    THEN [rc |-> RC_READ_NON_EXISTING_PAGE, fh |-> fh, mem |-> memPage]
    ELSE [rc |-> RC_OK, fh |-> fh, mem |-> d[pageNum + 1]]

\* readBlock(pageNum, fHandle, memPage): mem is memPage afterwards.
readBlock(pageNum, fh, d, memPage, ok) ==
    IF ~fh.open THEN [rc |-> RC_FILE_HANDLE_NOT_INIT, fh |-> fh, mem |-> memPage]
    ELSE IF pageNum < 0 \/ pageNum >= fh.totalNumPages
    THEN [rc |-> RC_READ_NON_EXISTING_PAGE, fh |-> fh, mem |-> memPage]
    ELSE IF seekToPageNum(pageNum, fh) # RC_OK
    THEN [rc |-> RC_READ_NON_EXISTING_PAGE, fh |-> fh, mem |-> memPage]
    ELSE IF ~ok \/ pageNum >= Len(d)
    THEN [rc |-> RC_READ_NON_EXISTING_PAGE, fh |-> fh, mem |-> memPage]
    ELSE [rc |-> RC_OK, fh |-> [fh EXCEPT !.curPagePos = pageNum],
          mem |-> d[pageNum + 1]]

\* An appendEmptyBlock that leaves the cursor where it was.
appendEmptyBlockKeepsCursor(fh, d, ok) ==
    IF ~fh.open THEN [rc |-> RC_FILE_HANDLE_NOT_INIT, fh |-> fh, disk |-> d]
    ELSE IF ~ok THEN [rc |-> RC_WRITE_FAILED, fh |-> fh, disk |-> d]
    ELSE [rc |-> RC_OK,
          fh |-> [fh EXCEPT !.pages = fh.pages + 1,
                            !.totalNumPages = fh.pages + 1],
          disk |-> Append(d, 0)]

\* appendEmptyBlock: one zero page at the end of the file.
appendEmptyBlock(fh, d, ok) ==
    IF ~fh.open THEN [rc |-> RC_FILE_HANDLE_NOT_INIT, fh |-> fh, disk |-> d]
    ELSE IF ~ok THEN [rc |-> RC_WRITE_FAILED, fh |-> fh, disk |-> d]
    ELSE [rc |-> RC_OK,
          fh |-> [fh EXCEPT !.pages = fh.pages + 1,
                            !.totalNumPages = fh.pages + 1,
                            !.curPagePos = fh.pages],
          disk |-> Append(d, 0)]

\* The while loop of ensureCapacity.
RECURSIVE ensureLoop(_, _, _, _)
ensureLoop(numberOfPages, fh, d, ok) ==
    IF fh.totalNumPages < numberOfPages
    THEN LET r == appendEmptyBlock(fh, d, ok)
         IN  IF r.rc # RC_OK THEN r
             ELSE ensureLoop(numberOfPages, r.fh, r.disk, ok)
    ELSE [rc |-> RC_OK, fh |-> fh, disk |-> d]

\* An ensureCapacity that appends one page too many.
ensureCapacityOneMore(numberOfPages, fh, d, ok) ==
    IF ~fh.open THEN [rc |-> RC_FILE_HANDLE_NOT_INIT, fh |-> fh, disk |-> d]
    ELSE IF numberOfPages < 0 THEN [rc |-> RC_WRITE_FAILED, fh |-> fh, disk |-> d]
    ELSE ensureLoop(numberOfPages + 1, fh, d, ok)

ensureCapacity(numberOfPages, fh, d, ok) ==
    IF ~fh.open THEN [rc |-> RC_FILE_HANDLE_NOT_INIT, fh |-> fh, disk |-> d]
    ELSE IF numberOfPages < 0 THEN [rc |-> RC_WRITE_FAILED, fh |-> fh, disk |-> d]
    ELSE ensureLoop(numberOfPages, fh, d, ok)

\* A writeBlock that extends the file to pageNum pages only.
writeBlockShortGrow(pageNum, fh, d, memPage, io) ==
    IF ~fh.open THEN [rc |-> RC_FILE_HANDLE_NOT_INIT, fh |-> fh, disk |-> d]
    ELSE IF pageNum < 0 THEN [rc |-> RC_WRITE_FAILED, fh |-> fh, disk |-> d]
    ELSE LET e == ensureCapacity(pageNum, fh, d, io.a)
         IN  IF e.rc # RC_OK \/ seekToPageNum(pageNum, e.fh) # RC_OK \/ ~io.w
             THEN [rc |-> RC_WRITE_FAILED, fh |-> e.fh, disk |-> e.disk]
             ELSE [rc |-> RC_OK,
                   fh |-> [e.fh EXCEPT !.curPagePos = pageNum],
                   disk |-> [e.disk EXCEPT ![pageNum + 1] = memPage]]

\* writeBlock(pageNum, fHandle, memPage); io.a is the outcome of the appends
\* of its ensureCapacity, io.w of its own fwrite.
writeBlock(pageNum, fh, d, memPage, io) ==
    IF ~fh.open THEN [rc |-> RC_FILE_HANDLE_NOT_INIT, fh |-> fh, disk |-> d]
    ELSE IF pageNum < 0 THEN [rc |-> RC_WRITE_FAILED, fh |-> fh, disk |-> d]
    ELSE LET e == IF pageNum >= fh.totalNumPages
                  THEN ensureCapacity(pageNum + 1, fh, d, io.a)
                  ELSE [rc |-> RC_OK, fh |-> fh, disk |-> d]
         IN  IF e.rc # RC_OK
             THEN [rc |-> RC_WRITE_FAILED, fh |-> e.fh, disk |-> e.disk]
             ELSE IF seekToPageNum(pageNum, e.fh) # RC_OK
             THEN [rc |-> RC_WRITE_FAILED, fh |-> e.fh, disk |-> e.disk]
             ELSE IF ~io.w
             THEN [rc |-> RC_WRITE_FAILED, fh |-> e.fh, disk |-> e.disk]
             ELSE [rc |-> RC_OK,
                   fh |-> [e.fh EXCEPT !.curPagePos = pageNum],
                   disk |-> [e.disk EXCEPT ![pageNum + 1] = memPage]]

\* readFirstBlock
readFirstBlock(fh, d, memPage, ok) == readBlock(0, fh, d, memPage, ok)

\* readPreviousBlock: the page before the cursor.
readPreviousBlock(fh, d, memPage, ok) ==
    IF ~fh.open THEN [rc |-> RC_FILE_HANDLE_NOT_INIT, fh |-> fh, mem |-> memPage]
    ELSE IF fh.curPagePos - 1 < 0
    THEN [rc |-> RC_READ_NON_EXISTING_PAGE, fh |-> fh, mem |-> memPage]
    ELSE readBlock(fh.curPagePos - 1, fh, d, memPage, ok)

\* readCurrentBlock
readCurrentBlock(fh, d, memPage, ok) ==
    IF ~fh.open THEN [rc |-> RC_FILE_HANDLE_NOT_INIT, fh |-> fh, mem |-> memPage]
    ELSE readBlock(fh.curPagePos, fh, d, memPage, ok)

\* readNextBlock: the page after the cursor.
readNextBlock(fh, d, memPage, ok) ==
    IF ~fh.open THEN [rc |-> RC_FILE_HANDLE_NOT_INIT, fh |-> fh, mem |-> memPage]
    ELSE IF fh.curPagePos + 1 >= fh.totalNumPages
    THEN [rc |-> RC_READ_NON_EXISTING_PAGE, fh |-> fh, mem |-> memPage]
    ELSE readBlock(fh.curPagePos + 1, fh, d, memPage, ok)

\* readLastBlock
readLastBlock(fh, d, memPage, ok) ==
    IF ~fh.open THEN [rc |-> RC_FILE_HANDLE_NOT_INIT, fh |-> fh, mem |-> memPage]
    ELSE readBlock(fh.totalNumPages - 1, fh, d, memPage, ok)

\* writeCurrentBlock
writeCurrentBlock(fh, d, memPage, io) ==
    IF ~fh.open THEN [rc |-> RC_FILE_HANDLE_NOT_INIT, fh |-> fh, disk |-> d]
    ELSE writeBlock(fh.curPagePos, fh, d, memPage, io)

\* --------------------------------------------- files, contexts and handles

FileNames == {"a", "b"}
\* The client keeps one SM_FileHandle variable for each file name.
HandleIds == FileNames
CtxIds == 1 .. NumCtx

\* What one fwrite of a page leaves: the whole page; fewer bytes than a
\* page, some of them in the file; nothing (the fopen, fseek or calloc
\* before it failed).
WriteOutcomes == {"full", "short", "none"}

\* A file is its whole pages and, after a short fwrite at its end, a tail of
\* fewer than PAGE_SIZE zero bytes.
NoFile == [exists |-> FALSE, pages |-> <<>>, tail |-> FALSE]

\* createPageFile over the directory entry f: fopen(fileName, "wb") and one
\* fwrite of a zero page.
createPageFile(f, out) ==
    IF out = "none" THEN [rc |-> RC_WRITE_FAILED, file |-> f]
    ELSE IF out = "short"
    THEN [rc |-> RC_WRITE_FAILED,
          file |-> [exists |-> TRUE, pages |-> <<>>, tail |-> TRUE]]
    ELSE [rc |-> RC_OK,
          file |-> [exists |-> TRUE, pages |-> <<0>>, tail |-> FALSE]]

\* The memory of a FileContext that is not allocated.
FreeCtx ==
    [live |-> FALSE, fname |-> "", pages |-> 0, linked |-> FALSE,
     orphan |-> NoFile, owner |-> NULL]

\* allocateFileContext(fileName, fp, totalPages).  fp is the stream on the
\* file called fname, or, once that name is removed while the stream is
\* open, on the file orphan that has no name any more.  owner is the handle
\* openPageFile filled in.
allocateFileContext(fileName, totalPages, h) ==
    [live |-> TRUE, fname |-> fileName, pages |-> totalPages, linked |-> TRUE,
     orphan |-> NoFile, owner |-> h]

\* An SM_FileHandle whose mgmtInfo is NULL.
NullHandle == [totalNumPages |-> 0, curPagePos |-> 0, mgmtInfo |-> NULL]

\* The record of a storage-manager call: its name, what it returned, the
\* file name it was given ("" if none) and the number of pages it added to
\* its file.  A call that fails and changes nothing leaves smRet as it is.
SmRet(op, name, grew, rc) ==
    [op |-> op, name |-> name, grew |-> grew, rc |-> rc]

\* The process was killed by a signal: the call did not return.
SIGNAL == "SIGNAL"

\* initStorageManager, no file created yet.
SmInit ==
    /\ files = [n \in FileNames |-> NoFile]
    /\ heap = [c \in CtxIds |-> FreeCtx]
    /\ handle = [h \in HandleIds |-> NullHandle]
    /\ globalOpenCtx = NULL
    /\ smRet = SmRet("initStorageManager", "", 0, RC_OK)

\* ========================================================== buffer manager

FrameIdx == 0 .. (NumFrames - 1)
PageIds == 0 .. MaxPage
Vals == 0 .. MaxVal

\* A Frame as initBufferPool leaves it.
EmptyFrame ==
    [pageId |-> NO_PAGE, data |-> 0, isDirty |-> FALSE, pinCount |-> 0,
     prev |-> NULL, next |-> NULL]

\* moveToLRUHead(md, f): f is a frame index or NULL.
moveToLRUHead(m, f) ==
    IF f = NULL \/ m.lruHead = f THEN m
    ELSE
      LET fr0 == m.frames
          p == fr0[f].prev
          n == fr0[f].next
          fr1 == IF p # NULL THEN [fr0 EXCEPT ![p].next = n] ELSE fr0
          fr2 == IF n # NULL THEN [fr1 EXCEPT ![n].prev = p] ELSE fr1
          tail1 == IF m.lruTail = f THEN p ELSE m.lruTail
          fr3 == [fr2 EXCEPT ![f].prev = NULL, ![f].next = m.lruHead]
          fr4 == IF m.lruHead # NULL THEN [fr3 EXCEPT ![m.lruHead].prev = f] ELSE fr3
          tail2 == IF tail1 = NULL THEN f ELSE tail1
      IN  [m EXCEPT !.frames = fr4, !.lruHead = f, !.lruTail = tail2]

\* The for loop of selectVictim under RS_FIFO: left is count - i.
RECURSIVE fifoScan(_, _)
fifoScan(m, left) ==
    IF left = 0 THEN [md |-> m, slot |-> NULL]
    ELSE
      LET idx == m.fifoQ[m.fifoHead]
          m1 == [m EXCEPT !.fifoHead = (m.fifoHead + 1) % m.capacity,
                          !.fifoCount = m.fifoCount - 1]
      IN  IF m.frames[idx].pinCount = 0 THEN [md |-> m1, slot |-> idx]
          ELSE fifoScan(m1, left - 1)

\* The while loop of selectVictim otherwise: from lruTail along prev.
RECURSIVE lruScan(_, _)
lruScan(m, f) ==
    IF f # NULL /\ m.frames[f].pinCount > 0 THEN lruScan(m, m.frames[f].prev)
    ELSE f

\* A selectVictim that takes the queue head, or the list tail, whatever its
\* pinCount.
selectVictimAnyPin(m) ==
    IF m.strat = RS_FIFO
    THEN IF m.fifoCount = 0 THEN [md |-> m, slot |-> NULL]
         ELSE [md |-> [m EXCEPT !.fifoHead = (m.fifoHead + 1) % m.capacity,
                                !.fifoCount = m.fifoCount - 1],
               slot |-> m.fifoQ[m.fifoHead]]
    ELSE [md |-> m, slot |-> m.lruTail]

\* selectVictim(md): the metadata afterwards and the victim (NULL if none).
selectVictim(m) ==
    IF m.strat = RS_FIFO THEN fifoScan(m, m.fifoCount)
    ELSE [md |-> m, slot |-> lruScan(m, m.lruTail)]

\* An enqueueFIFO that writes the cell at fifoHead.
enqueueFIFOAtHead(m, idx) ==
    [m EXCEPT !.fifoQ[m.fifoHead] = idx, !.fifoCount = m.fifoCount + 1]

\* enqueueFIFO(md, idx)
enqueueFIFO(m, idx) ==
    LET tail == (m.fifoHead + m.fifoCount) % m.capacity
    IN  [m EXCEPT !.fifoQ[tail] = idx, !.fifoCount = m.fifoCount + 1]

\* The PoolMetadata initBufferPool builds over the file d.  fifoQ is
\* malloc'ed and not initialised: its cells hold NULL until written, and a
\* read of such a cell as a frame index is outside the frame table.
initMd(d, numPages, strategy) ==
    [fh |-> openPageFile(d).fh,
     frames |-> [i \in 0 .. (numPages - 1) |-> EmptyFrame],
     capacity |-> numPages,
     strat |-> strategy,
     readIO |-> 0,
     writeIO |-> 0,
     fifoQ |-> [i \in 0 .. (numPages - 1) |-> NULL],
     fifoHead |-> 0,
     fifoCount |-> 0,
     lruHead |-> NULL,
     lruTail |-> NULL]

\* The value md has while bm->mgmtData is NULL (the metadata is freed).
FreedMd ==
    [fh |-> ClosedHandle,
     frames |-> [i \in FrameIdx |-> EmptyFrame],
     capacity |-> NumFrames,
     strat |-> RS_FIFO,
     readIO |-> 0,
     writeIO |-> 0,
     fifoQ |-> [i \in FrameIdx |-> NULL],
     fifoHead |-> 0,
     fifoCount |-> 0,
     lruHead |-> NULL,
     lruTail |-> NULL]

\* The first frame index holding page pid, NULL if none (the hit loop).
findPage(m, pid) ==
    LET hits == {i \in DOMAIN m.frames : m.frames[i].pageId = pid}
    IN  IF hits = {} THEN NULL
        ELSE CHOOSE i \in hits : \A j \in hits : i <= j

\* A freeIdx that is the last frame with pageId = NO_PAGE.
findFreeLast(m) ==
    LET free == {i \in DOMAIN m.frames : m.frames[i].pageId = NO_PAGE}
    IN  IF free = {} THEN NULL
        ELSE CHOOSE i \in free : \A j \in free : i >= j

\* freeIdx of pinPage: the first frame with pageId = NO_PAGE, -1 if none.
findFree(m) == findPage(m, NO_PAGE)

\* A pinHit that reads the page again.
pinHitReads(m, d, pid, i) ==
    LET r == readBlock(pid, m.fh, d, m.frames[i].data, TRUE)
        m1 == [m EXCEPT !.frames[i].pinCount = m.frames[i].pinCount + 1,
                        !.frames[i].data = r.mem,
                        !.fh = r.fh,
                        !.readIO = m.readIO + 1]
        m2 == IF m.strat = RS_LRU \/ m.strat = RS_LRU_K
              THEN moveToLRUHead(m1, i) ELSE m1
    IN  [rc |-> RC_OK, md |-> m2, disk |-> d, slot |-> i, victim |-> FALSE]

\* A pinHit that leaves the LRU list alone.
pinHitNoMove(m, d, pid, i) ==
    [rc |-> RC_OK,
     md |-> [m EXCEPT !.frames[i].pinCount = m.frames[i].pinCount + 1],
     disk |-> d, slot |-> i, victim |-> FALSE]

\* A pinHit that leaves pinCount as it is.
pinHitNoCount(m, d, pid, i) ==
    LET m2 == IF m.strat = RS_LRU \/ m.strat = RS_LRU_K
              THEN moveToLRUHead(m, i) ELSE m
    IN  [rc |-> RC_OK, md |-> m2, disk |-> d, slot |-> i, victim |-> FALSE]

\* pinPage on a hit at frame i.
pinHit(m, d, pid, i) ==
    LET m1 == [m EXCEPT !.frames[i].pinCount = m.frames[i].pinCount + 1]
        m2 == IF m.strat = RS_LRU \/ m.strat = RS_LRU_K
              THEN moveToLRUHead(m1, i) ELSE m1
    IN  [rc |-> RC_OK, md |-> m2, disk |-> d, slot |-> i, victim |-> FALSE]

\* pinPage from "if (pid >= md->fh.totalNumPages)" on: load pid into slot.
pinLoad(m, d, pid, slot, isVictim, io) ==
    LET e == IF pid >= m.fh.totalNumPages
             THEN ensureCapacity(pid + 1, m.fh, d, io.a)
             ELSE [rc |-> RC_OK, fh |-> m.fh, disk |-> d]
        r == readBlock(pid, e.fh, e.disk, m.frames[slot].data, io.r)
        m1 == [m EXCEPT !.fh = r.fh,
                        !.readIO = m.readIO + 1,
                        !.frames[slot].data = r.mem,
                        !.frames[slot].pageId = pid,
                        !.frames[slot].isDirty = FALSE,
                        !.frames[slot].pinCount = 1]
        m2 == IF m.strat = RS_FIFO THEN enqueueFIFO(m1, slot)
              ELSE moveToLRUHead(m1, slot)
    IN  [rc |-> RC_OK, md |-> m2, disk |-> e.disk, slot |-> slot,
         victim |-> isVictim]

\* A pinEvict that reads the new page into the victim before it writes the
\* victim back.
pinEvictReadFirst(m, d, pid, io) ==
    LET v == selectVictim(m)
    IN  IF v.slot = NULL
        THEN [rc |-> RC_READ_NON_EXISTING_PAGE, md |-> v.md, disk |-> d,
              slot |-> NULL, victim |-> FALSE]
        ELSE IF v.md.frames[v.slot].isDirty
        THEN LET l == pinLoad(v.md, d, pid, v.slot, TRUE, io)
                 w == writeBlock(v.md.frames[v.slot].pageId, l.md.fh, l.disk,
                                 l.md.frames[v.slot].data, io)
             IN  [l EXCEPT !.md = [l.md EXCEPT !.fh = w.fh,
                                               !.writeIO = l.md.writeIO + 1],
                           !.disk = w.disk]
        ELSE pinLoad(v.md, d, pid, v.slot, TRUE, io)

\* A pinEvict that counts the read before it looks for a victim.
pinEvictCountsFirst(m, d, pid, io) ==
    LET v == selectVictim([m EXCEPT !.readIO = m.readIO + 1])
        m0 == [v.md EXCEPT !.readIO = m.readIO]
    IN  IF v.slot = NULL
        THEN [rc |-> RC_READ_NON_EXISTING_PAGE, md |-> v.md, disk |-> d,
              slot |-> NULL, victim |-> FALSE]
        ELSE IF m0.frames[v.slot].isDirty
        THEN LET w == writeBlock(m0.frames[v.slot].pageId, m0.fh, d,
                                 m0.frames[v.slot].data, io)
                 m1 == [m0 EXCEPT !.fh = w.fh, !.writeIO = m0.writeIO + 1]
             IN  pinLoad(m1, w.disk, pid, v.slot, TRUE, io)
        ELSE pinLoad(m0, d, pid, v.slot, TRUE, io)

\* pinPage on a miss with no free frame: victim, write-back, load.
pinEvict(m, d, pid, io) ==
    LET v == selectVictim(m)
    IN  IF v.slot = NULL
        THEN [rc |-> RC_READ_NON_EXISTING_PAGE, md |-> v.md, disk |-> d,
              slot |-> NULL, victim |-> FALSE]
        ELSE IF v.md.frames[v.slot].isDirty
        THEN LET w == writeBlock(v.md.frames[v.slot].pageId, v.md.fh, d,
                                 v.md.frames[v.slot].data, io)
                 m1 == [v.md EXCEPT !.fh = w.fh, !.writeIO = v.md.writeIO + 1]
             IN  pinLoad(m1, w.disk, pid, v.slot, TRUE, io)
        ELSE pinLoad(v.md, d, pid, v.slot, TRUE, io)

\* A pinPage without the hit check.
pinPageNoHit(m, d, pid, io) ==
    IF pid < 0
    THEN [rc |-> RC_READ_NON_EXISTING_PAGE, md |-> m, disk |-> d,
          slot |-> NULL, victim |-> FALSE]
    ELSE IF findFree(m) >= 0 THEN pinLoad(m, d, pid, findFree(m), FALSE, io)
    ELSE pinEvict(m, d, pid, io)

\* pinPage(bm, ph, pid) on an initialised pool.
pinPage(m, d, pid, io) ==
    IF pid < 0
    THEN [rc |-> RC_READ_NON_EXISTING_PAGE, md |-> m, disk |-> d,
          slot |-> NULL, victim |-> FALSE]
    ELSE IF findPage(m, pid) # NULL THEN pinHit(m, d, pid, findPage(m, pid))
    ELSE IF findFree(m) >= 0 THEN pinLoad(m, d, pid, findFree(m), FALSE, io)
    ELSE pinEvict(m, d, pid, io)

\* An unpinPage without the test of pinCount.
unpinPageAlways(m, pid) ==
    LET i == findPage(m, pid)
    IN  IF i # NULL
        THEN [rc |-> RC_OK,
              md |-> [m EXCEPT !.frames[i].pinCount = m.frames[i].pinCount - 1]]
        ELSE [rc |-> RC_READ_NON_EXISTING_PAGE, md |-> m]

\* unpinPage(bm, ph) with ph->pageNum = pid.
unpinPage(m, pid) ==
    LET i == findPage(m, pid)
    IN  IF i # NULL /\ m.frames[i].pinCount > 0
        THEN [rc |-> RC_OK,
              md |-> [m EXCEPT !.frames[i].pinCount = m.frames[i].pinCount - 1]]
        ELSE [rc |-> RC_READ_NON_EXISTING_PAGE, md |-> m]

\* markDirty(bm, ph) with ph->pageNum = pid.
markDirty(m, pid) ==
    LET i == findPage(m, pid)
    IN  IF i # NULL
        THEN [rc |-> RC_OK, md |-> [m EXCEPT !.frames[i].isDirty = TRUE]]
        ELSE [rc |-> RC_READ_NON_EXISTING_PAGE, md |-> m]

\* forcePage(bm, ph) with ph->pageNum = pid.
forcePage(m, d, pid, io) ==
    LET i == findPage(m, pid)
    IN  IF i # NULL
        THEN LET w == writeBlock(pid, m.fh, d, m.frames[i].data, io)
             IN  [rc |-> RC_OK,
                  md |-> [m EXCEPT !.fh = w.fh,
                                   !.writeIO = m.writeIO + 1,
                                   !.frames[i].isDirty = FALSE],
                  disk |-> w.disk]
        ELSE [rc |-> RC_READ_NON_EXISTING_PAGE, md |-> m, disk |-> d]

\* One iteration of the loop of forceFlushPool / shutdownBufferPool.
flushable(f) == f.pageId # NO_PAGE /\ f.isDirty /\ f.pinCount = 0

\* A flush loop that counts the writes and clears isDirty but writes nothing.
flushLoopNoWrite(m, d, i, io) ==
    [rc |-> RC_OK,
     md |-> [m EXCEPT
               !.writeIO = m.writeIO +
                 Cardinality({j \in i .. (m.capacity - 1) : flushable(m.frames[j])}),
               !.frames = [j \in DOMAIN m.frames |->
                             IF j >= i /\ flushable(m.frames[j])
                             THEN [m.frames[j] EXCEPT !.isDirty = FALSE]
                             ELSE m.frames[j]]],
     disk |-> d]

\* The for loop of forceFlushPool from frame i on.
RECURSIVE flushLoop(_, _, _, _)
flushLoop(m, d, i, io) ==
    IF i >= m.capacity THEN [rc |-> RC_OK, md |-> m, disk |-> d]
    ELSE IF flushable(m.frames[i])
    THEN LET w == writeBlock(m.frames[i].pageId, m.fh, d, m.frames[i].data, io)
         IN  flushLoop([m EXCEPT !.fh = w.fh,
                                 !.writeIO = m.writeIO + 1,
                                 !.frames[i].isDirty = FALSE],
                       w.disk, i + 1, io)
    ELSE flushLoop(m, d, i + 1, io)

\* forceFlushPool(bm)
forceFlushPool(m, d, io) == flushLoop(m, d, 0, io)

\* A flush loop of shutdownBufferPool that counts the writes and makes none.
shutdownLoopNoWrite(m, d, i, io) ==
    [rc |-> RC_OK,
     md |-> [m EXCEPT !.writeIO = m.writeIO +
                 Cardinality({j \in i .. (m.capacity - 1) : flushable(m.frames[j])})],
     disk |-> d]

\* The first for loop of shutdownBufferPool from frame i on (isDirty is
\* left as it is).
RECURSIVE shutdownLoop(_, _, _, _)
shutdownLoop(m, d, i, io) ==
    IF i >= m.capacity THEN [rc |-> RC_OK, md |-> m, disk |-> d]
    ELSE IF flushable(m.frames[i])
    THEN LET w == writeBlock(m.frames[i].pageId, m.fh, d, m.frames[i].data, io)
         IN  shutdownLoop([m EXCEPT !.fh = w.fh, !.writeIO = m.writeIO + 1],
                          w.disk, i + 1, io)
    ELSE shutdownLoop(m, d, i + 1, io)

\* shutdownBufferPool(bm): flush, closePageFile, free.  md is the metadata
\* as it is just before it is freed.
shutdownBufferPool(m, d, io) ==
    LET s == shutdownLoop(m, d, 0, io)
        c == closePageFile(s.md.fh)
    IN  [rc |-> RC_OK, md |-> [s.md EXCEPT !.fh = c.fh], disk |-> s.disk]

\* ================================================================= actions

\* The record of an API call: its name, its return code, whether
\* selectVictim chose a frame for it, and the number of writeBlock calls it
\* made.  A call that fails on an initialised pool leaves ret as it is: but
\* for the FIFO queue such a call changes nothing.
Ret(op, rc, victim, wrote) ==
    [op |-> op, rc |-> rc, victim |-> victim, wrote |-> wrote]

\* ret after a call with result r on an initialised pool.
RetOf(op, r, victim, wrote) ==
    IF r.rc = RC_OK THEN Ret(op, r.rc, victim, wrote) ELSE ret

\* s without the element x, x appended: x becomes the latest.
Touch(s, x) == Append(SelectSeq(s, LAMBDA y : y # x), x)

\* The counters and pin counts stay inside the bounds of the model.
InBounds(m) ==
    /\ m.readIO <= MaxReadIO
    /\ m.writeIO <= MaxWriteIO
    /\ \A i \in DOMAIN m.frames : m.frames[i].pinCount <= MaxPin

\* No page has a handle out.
NoFixes == [h \in {NO_PAGE} \cup PageIds |-> 0]

\* The state createPageFile and initBufferPool leave: a file of one zero
\* page, a pool of NumFrames empty frames.
Init ==
    /\ disk = <<0>>
    /\ mgmtData = TRUE
    /\ \E s \in Strategies : md = initMd(<<0>>, NumFrames, s)
    /\ ret = Ret("initBufferPool", RC_OK, FALSE, 0)
    /\ loadSeq = <<>>
    /\ useSeq = <<>>
    /\ fixes = NoFixes
    /\ SmInit

\* A call on a pool that is shut down that reports success.
NotInitOk(op) ==
    /\ ~mgmtData
    /\ ret' = Ret(op, RC_OK, FALSE, 0)
    /\ UNCHANGED <<disk, mgmtData, md, loadSeq, useSeq, fixes>>
    /\ UNCHANGED smVars

\* initBufferPool(bm, file, NumFrames, s, NULL) on a pool that is shut down.
InitBufferPool(s) ==
    /\ ~mgmtData
    /\ mgmtData' = TRUE
    /\ md' = initMd(disk, NumFrames, s)
    /\ ret' = Ret("initBufferPool", RC_OK, FALSE, 0)
    /\ loadSeq' = <<>>
    /\ useSeq' = <<>>
    /\ fixes' = NoFixes
    /\ UNCHANGED disk
    /\ UNCHANGED smVars

\* A call on a pool whose mgmtData is NULL.
NotInit(op) ==
    /\ ~mgmtData
    /\ ret' = Ret(op, RC_FILE_HANDLE_NOT_INIT, FALSE, 0)
    /\ UNCHANGED <<disk, mgmtData, md, loadSeq, useSeq, fixes>>
    /\ UNCHANGED smVars

\* pinPage(bm, ph, pid).  loadSeq is kept under RS_FIFO, useSeq otherwise.
\* A successful call that reads the page (readIO moves) loads it: the
\* page's count of handles starts again at 1; any other successful call
\* adds a handle.
PinPage(pid) ==
    \/ NotInit("pinPage")
    \/ /\ mgmtData
       /\ LET r == pinPage(md, disk, pid, IoOK)
              loaded == r.rc = RC_OK /\ findPage(md, pid) = NULL
          IN  /\ InBounds(r.md)
              /\ md' = r.md
              /\ disk' = r.disk
              /\ ret' = RetOf("pinPage", r, r.victim, r.md.writeIO - md.writeIO)
              /\ loadSeq' = IF loaded /\ md.strat = RS_FIFO
                            THEN Touch(loadSeq, r.slot) ELSE loadSeq
              /\ useSeq' = IF r.rc = RC_OK /\ md.strat # RS_FIFO
                           THEN Touch(useSeq, r.slot) ELSE useSeq
              /\ fixes' = IF r.rc # RC_OK THEN fixes
                          ELSE IF r.md.readIO # md.readIO
                          THEN [fixes EXCEPT ![pid] = 1]
                          ELSE [fixes EXCEPT ![pid] = fixes[pid] + 1]
       /\ UNCHANGED mgmtData
       /\ UNCHANGED smVars

\* unpinPage(bm, ph) with ph->pageNum = pid
UnpinPage(pid) ==
    \/ NotInit("unpinPage")
    \/ /\ mgmtData
       /\ LET r == unpinPage(md, pid)
          IN  /\ md' = r.md
              /\ ret' = RetOf("unpinPage", r, FALSE, 0)
              /\ fixes' = IF r.rc = RC_OK
                          THEN [fixes EXCEPT ![pid] = fixes[pid] - 1]
                          ELSE fixes
       /\ UNCHANGED <<disk, mgmtData, loadSeq, useSeq>>
       /\ UNCHANGED smVars

\* markDirty(bm, ph) with ph->pageNum = pid
MarkDirty(pid) ==
    \/ NotInit("markDirty")
    \/ /\ mgmtData
       /\ LET r == markDirty(md, pid)
          IN  /\ md' = r.md
              /\ ret' = RetOf("markDirty", r, FALSE, 0)
       /\ UNCHANGED <<disk, mgmtData, loadSeq, useSeq, fixes>>
       /\ UNCHANGED smVars

\* forcePage(bm, ph) with ph->pageNum = pid
ForcePage(pid) ==
    \/ NotInit("forcePage")
    \/ /\ mgmtData
       /\ LET r == forcePage(md, disk, pid, IoOK)
          IN  /\ InBounds(r.md)
              /\ md' = r.md
              /\ disk' = r.disk
              /\ ret' = RetOf("forcePage", r, FALSE, r.md.writeIO - md.writeIO)
       /\ UNCHANGED <<mgmtData, loadSeq, useSeq, fixes>>
       /\ UNCHANGED smVars

\* forceFlushPool(bm)
ForceFlushPool ==
    \/ NotInit("forceFlushPool")
    \/ /\ mgmtData
       /\ LET r == forceFlushPool(md, disk, IoOK)
          IN  /\ InBounds(r.md)
              /\ md' = r.md
              /\ disk' = r.disk
              /\ ret' = Ret("forceFlushPool", r.rc, FALSE, r.md.writeIO - md.writeIO)
       /\ UNCHANGED <<mgmtData, loadSeq, useSeq, fixes>>
       /\ UNCHANGED smVars

\* shutdownBufferPool(bm): the metadata is freed, bm->mgmtData is NULL.
ShutdownBufferPool ==
    \/ NotInit("shutdownBufferPool")
    \/ /\ mgmtData
       /\ LET r == shutdownBufferPool(md, disk, IoOK)
          IN  /\ InBounds(r.md)
              /\ disk' = r.disk
              /\ ret' = Ret("shutdownBufferPool", r.rc, FALSE, r.md.writeIO - md.writeIO)
       /\ mgmtData' = FALSE
       /\ md' = FreedMd
       /\ loadSeq' = <<>>
       /\ useSeq' = <<>>
       /\ fixes' = NoFixes
       /\ UNCHANGED smVars

\* The pages whose bytes the client changes.
Written == {0}

\* The holder of a handle on frame i (a pinned page of Written) stores v in
\* ph->data.
ClientWrite(i, v) ==
    /\ mgmtData
    /\ md.frames[i].pinCount > 0
    /\ md.frames[i].pageId \in Written
    /\ md' = [md EXCEPT !.frames[i].data = v]
    /\ ret' = Ret("write", RC_OK, FALSE, 0)
    /\ UNCHANGED <<disk, mgmtData, loadSeq, useSeq, fixes>>
    /\ UNCHANGED smVars

Handles == {NO_PAGE} \cup PageIds

Next ==
    \/ \E s \in Strategies : InitBufferPool(s)
    \/ \E pid \in Handles : PinPage(pid)
    \/ \E pid \in Handles : UnpinPage(pid)
    \/ \E pid \in Handles : MarkDirty(pid)
    \/ \E pid \in Handles : ForcePage(pid)
    \/ ForceFlushPool
    \/ ShutdownBufferPool
    \/ \E i \in FrameIdx, v \in Vals : ClientWrite(i, v)

Spec == Init /\ [][Next]_vars

\* ================================================ storage-manager client
\* The client creates, opens, reads, writes, grows, closes and destroys
\* page files.  It opens file n through its handle for n, handle[n], and
\* neither opens nor creates a file it holds open.

Ctx(h) == handle[h].mgmtInfo
Live(c) == c # NULL /\ heap[c].live

\* Handle h holds the context openPageFile gave it.
Valid(h) == Live(Ctx(h)) /\ heap[Ctx(h)].owner = h

\* Some context is a stream on the file called n.
OpenOn(n) == \E c \in CtxIds : heap[c].live /\ heap[c].linked /\ heap[c].fname = n

\* The file behind the stream ctx->fp.
fileOf(c) == IF heap[c].linked THEN files[heap[c].fname] ELSE heap[c].orphan

\* Handle h with the FileContext it points to, and the pages of its file.
fhOf(h) ==
    [open |-> Ctx(h) # NULL, totalNumPages |-> handle[h].totalNumPages,
     curPagePos |-> handle[h].curPagePos,
     pages |-> IF Live(Ctx(h)) THEN heap[Ctx(h)].pages ELSE 0]
dataOf(h) == IF Live(Ctx(h)) THEN fileOf(Ctx(h)).pages ELSE <<>>

Running == smRet.rc # SIGNAL

\* createPageFile(n)
CreatePageFile(n, out) ==
    /\ Running
    /\ ~Valid(n)
    /\ ~OpenOn(n)
    /\ LET r == createPageFile(files[n], out)
       IN  /\ files' = [files EXCEPT ![n] = r.file]
           /\ smRet' = IF r.file = files[n] /\ r.rc # RC_OK THEN smRet
                       ELSE SmRet("createPageFile", n, 0, r.rc)
    /\ UNCHANGED <<heap, handle, globalOpenCtx>>
    /\ UNCHANGED bmVars

\* openPageFile(n, &handle[n]): malloc hands out any free address.
OpenPageFile(n) ==
    /\ Running
    /\ ~Valid(n)
    /\ ~OpenOn(n)
    /\ IF ~files[n].exists
       THEN UNCHANGED <<heap, handle, globalOpenCtx, smRet>>
       ELSE \E c \in CtxIds :
            /\ ~heap[c].live
            /\ LET r == openPageFile(files[n].pages)
               IN  /\ heap' = [heap EXCEPT ![c] =
                                 allocateFileContext(n, r.fh.pages, n)]
                   /\ handle' = [handle EXCEPT ![n] =
                                   [totalNumPages |-> r.fh.totalNumPages,
                                    curPagePos |-> r.fh.curPagePos,
                                    mgmtInfo |-> c]]
                   /\ smRet' = SmRet("openPageFile", n, 0, r.rc)
            /\ globalOpenCtx' = c
    /\ UNCHANGED files
    /\ UNCHANGED bmVars

\* closePageFile(&handle[h]).  freeFileContext reads the context: freed
\* memory is undefined behaviour, the call returns what fclose of a closed
\* stream makes it return or the process is killed.  A handle whose context
\* was freed behind its back and whose address malloc handed out again
\* closes the file of the other handle, and frees its own fileName a second
\* time.
ClosePageFile(h) ==
    /\ Running
    /\ LET c == Ctx(h)
           r == closePageFile(fhOf(h))
       IN  IF c = NULL
           THEN UNCHANGED <<heap, handle, globalOpenCtx, smRet>>
           ELSE IF ~Live(c)
           THEN /\ \E rc \in {SIGNAL, RC_WRITE_FAILED} :
                        smRet' = SmRet("closePageFile", "", 0, rc)
                /\ UNCHANGED <<heap, handle, globalOpenCtx>>
           ELSE \/ /\ heap' = [heap EXCEPT ![c] = FreeCtx]
                   /\ handle' = [handle EXCEPT ![h] = NullHandle]
                   /\ globalOpenCtx' = IF globalOpenCtx = c THEN NULL
                                       ELSE globalOpenCtx
                   /\ smRet' = SmRet("closePageFile", "", 0, r.rc)
                \/ /\ ~Valid(h)
                   /\ smRet' = SmRet("closePageFile", "", 0, SIGNAL)
                   /\ UNCHANGED <<heap, handle, globalOpenCtx>>
    /\ UNCHANGED files
    /\ UNCHANGED bmVars

\* destroyPageFile(n) over the directory fs, the contexts hp and
\* globalOpenCtx g.  The close of the temporary handle frees g when its name
\* is n; the handle of the client is not touched.  remove(n) of a file that
\* still has an open stream: unlink is TRUE where the name is removed and
\* the stream keeps the file, FALSE where remove fails.
destroyPageFile(n, fs, hp, g, unlink) ==
    LET auto == g # NULL /\ hp[g].fname = n
        heap1 == IF auto THEN [hp EXCEPT ![g] = FreeCtx] ELSE hp
        g1 == IF auto THEN NULL ELSE g
        open == {c \in CtxIds : heap1[c].live /\ heap1[c].linked
                                   /\ heap1[c].fname = n}
    IN  IF ~fs[n].exists \/ (open # {} /\ ~unlink)
        THEN [rc |-> RC_FILE_NOT_FOUND, files |-> fs, heap |-> heap1,
              globalOpenCtx |-> g1]
        ELSE [rc |-> RC_OK, files |-> [fs EXCEPT ![n] = NoFile],
              heap |-> [c \in CtxIds |->
                          IF c \in open
                          THEN [heap1[c] EXCEPT !.linked = FALSE,
                                                !.orphan = fs[n]]
                          ELSE heap1[c]],
              globalOpenCtx |-> g1]

DestroyPageFile(n, unlink) ==
    /\ Running
    /\ LET r == destroyPageFile(n, files, heap, globalOpenCtx, unlink)
       IN  /\ files' = r.files
           /\ heap' = r.heap
           /\ globalOpenCtx' = r.globalOpenCtx
           /\ smRet' = IF r.rc # RC_OK /\ r.heap = heap THEN smRet
                       ELSE SmRet("destroyPageFile", n, 0, r.rc)
    /\ UNCHANGED handle
    /\ UNCHANGED bmVars

\* A call op on handle h that leaves the return code r.rc, the handle
\* with its context r.fh and the pages r.disk.  touches: the call reaches
\* ctx->fp; with the context freed that is undefined behaviour, the call
\* returns the code ubrc of a failed stdio call or the process is killed.
\* short: an fwrite of appendEmptyBlock left part of a page in the file.
OnHandle(op, h, touches, r, short, ubrc) ==
    /\ Running
    /\ LET c == Ctx(h)
       IN  IF c # NULL /\ ~Live(c) /\ touches
           THEN /\ \E rc \in {SIGNAL, ubrc} : smRet' = SmRet(op, "", 0, rc)
                /\ UNCHANGED <<files, heap, handle>>
           ELSE /\ Len(r.disk) <= MaxFilePages
                /\ handle' = [handle EXCEPT
                                ![h].totalNumPages = r.fh.totalNumPages,
                                ![h].curPagePos = r.fh.curPagePos]
                /\ IF Live(c)
                   THEN LET f == [fileOf(c) EXCEPT !.pages = r.disk,
                                                    !.tail = @ \/ short]
                        IN  /\ heap' = [heap EXCEPT
                                          ![c].pages = r.fh.pages,
                                          ![c].orphan = IF heap[c].linked
                                                        THEN @ ELSE f]
                            /\ files' = IF heap[c].linked
                                        THEN [files EXCEPT ![heap[c].fname] = f]
                                        ELSE files
                   ELSE UNCHANGED <<files, heap>>
                /\ smRet' = IF r.rc # RC_OK /\ ~short /\ r.fh = fhOf(h)
                               /\ r.disk = dataOf(h)
                            THEN smRet
                            ELSE SmRet(op, "", Len(r.disk) - Len(dataOf(h)), r.rc)
    /\ UNCHANGED globalOpenCtx
    /\ UNCHANGED bmVars

\* What a read leaves: the file is as it was.
ReadRes(h, r) == [rc |-> r.rc, fh |-> r.fh, disk |-> dataOf(h)]

InFile(h, p) == 0 <= p /\ p < handle[h].totalNumPages

\* readBlock(i, &handle[h], buf)
ReadBlock(h, i, ok) ==
    OnHandle("readBlock", h, InFile(h, i),
             ReadRes(h, readBlock(i, fhOf(h), dataOf(h), 0, ok)),
             FALSE, RC_READ_NON_EXISTING_PAGE)

ReadFirstBlock(h, ok) ==
    OnHandle("readFirstBlock", h, InFile(h, 0),
             ReadRes(h, readFirstBlock(fhOf(h), dataOf(h), 0, ok)),
             FALSE, RC_READ_NON_EXISTING_PAGE)

ReadPreviousBlock(h, ok) ==
    OnHandle("readPreviousBlock", h, InFile(h, handle[h].curPagePos - 1),
             ReadRes(h, readPreviousBlock(fhOf(h), dataOf(h), 0, ok)),
             FALSE, RC_READ_NON_EXISTING_PAGE)

ReadCurrentBlock(h, ok) ==
    OnHandle("readCurrentBlock", h, InFile(h, handle[h].curPagePos),
             ReadRes(h, readCurrentBlock(fhOf(h), dataOf(h), 0, ok)),
             FALSE, RC_READ_NON_EXISTING_PAGE)

ReadNextBlock(h, ok) ==
    OnHandle("readNextBlock", h, InFile(h, handle[h].curPagePos + 1),
             ReadRes(h, readNextBlock(fhOf(h), dataOf(h), 0, ok)),
             FALSE, RC_READ_NON_EXISTING_PAGE)

ReadLastBlock(h, ok) ==
    OnHandle("readLastBlock", h, InFile(h, handle[h].totalNumPages - 1),
             ReadRes(h, readLastBlock(fhOf(h), dataOf(h), 0, ok)),
             FALSE, RC_READ_NON_EXISTING_PAGE)

\* The outcomes of the fwrite calls of one write: out for those of
\* appendEmptyBlock, w for the one of writeBlock.
IoOf(out, w) == [w |-> w, a |-> out = "full", r |-> TRUE]

\* The fwrite of writeBlock is reached when the appends before it succeed.
WriteIo == {<<"full", TRUE>>, <<"full", FALSE>>, <<"short", TRUE>>, <<"none", TRUE>>}

\* writeBlock(i, &handle[h], buf) with buf holding v
WriteBlock(h, i, v, out, w) ==
    OnHandle("writeBlock", h, i >= 0,
             writeBlock(i, fhOf(h), dataOf(h), v, IoOf(out, w)),
             out = "short" /\ i >= handle[h].totalNumPages,
             RC_WRITE_FAILED)

\* writeCurrentBlock(&handle[h], buf) with buf holding v
WriteCurrentBlock(h, v, w) ==
    OnHandle("writeCurrentBlock", h, TRUE,
             writeCurrentBlock(fhOf(h), dataOf(h), v, IoOf("full", w)),
             FALSE, RC_WRITE_FAILED)

\* appendEmptyBlock(&handle[h])
AppendEmptyBlock(h, out) ==
    OnHandle("appendEmptyBlock", h, TRUE,
             appendEmptyBlock(fhOf(h), dataOf(h), out = "full"),
             out = "short", RC_WRITE_FAILED)

\* ensureCapacity(n, &handle[h])
EnsureCapacity(h, n, out) ==
    OnHandle("ensureCapacity", h, n > handle[h].totalNumPages,
             ensureCapacity(n, fhOf(h), dataOf(h), out = "full"),
             out = "short" /\ n > handle[h].totalNumPages,
             RC_WRITE_FAILED)

FilePageIds == -1 .. MaxFilePages

\* One page file used through the whole storage manager.
SmNames == {"a"}

SmNext ==
    \/ \E n \in SmNames, out \in WriteOutcomes : CreatePageFile(n, out)
    \/ \E n \in SmNames : OpenPageFile(n)
    \/ \E h \in SmNames : ClosePageFile(h)
    \/ \E n \in SmNames, unlink \in BOOLEAN : DestroyPageFile(n, unlink)
    \/ \E h \in SmNames, i \in FilePageIds, ok \in BOOLEAN : ReadBlock(h, i, ok)
    \/ \E h \in SmNames, ok \in BOOLEAN : ReadFirstBlock(h, ok)
    \/ \E h \in SmNames, ok \in BOOLEAN : ReadPreviousBlock(h, ok)
    \/ \E h \in SmNames, ok \in BOOLEAN : ReadCurrentBlock(h, ok)
    \/ \E h \in SmNames, ok \in BOOLEAN : ReadNextBlock(h, ok)
    \/ \E h \in SmNames, ok \in BOOLEAN : ReadLastBlock(h, ok)
    \/ \E h \in SmNames, i \in FilePageIds, v \in Vals, o \in WriteIo :
          WriteBlock(h, i, v, o[1], o[2])
    \/ \E h \in SmNames, v \in Vals, w \in BOOLEAN : WriteCurrentBlock(h, v, w)
    \/ \E h \in SmNames, out \in WriteOutcomes : AppendEmptyBlock(h, out)
    \/ \E h \in SmNames, n \in FilePageIds, out \in WriteOutcomes :
          EnsureCapacity(h, n, out)

\* The pool is not used.
SmStart == Init /\ md.strat = RS_FIFO

SpecSM == SmStart /\ [][SmNext]_vars

\* Several page files of one page each, created, opened, read, written,
\* closed and destroyed in any order.
DirNext ==
    \/ \E n \in FileNames : CreatePageFile(n, "full")
    \/ \E n \in FileNames : OpenPageFile(n)
    \/ \E h \in HandleIds : ClosePageFile(h)
    \/ \E n \in FileNames, unlink \in BOOLEAN : DestroyPageFile(n, unlink)
    \/ \E h \in HandleIds : ReadCurrentBlock(h, TRUE)
    \/ \E h \in HandleIds, v \in Vals : WriteCurrentBlock(h, v, TRUE)

SpecDir == SmStart /\ [][DirNext]_vars

\* ================================================================== claims

\* The frames of the pool, and what the statistics functions report of them.
Resident(m, i) == m.frames[i].pageId # NO_PAGE
Pinned(m, i) == m.frames[i].pinCount > 0
AllPinned(m) == \A i \in FrameIdx : Resident(m, i) /\ Pinned(m, i)
SameFrameState(m1, m2) ==
    \A i \in FrameIdx :
        /\ m1.frames[i].pageId = m2.frames[i].pageId
        /\ m1.frames[i].isDirty = m2.frames[i].isDirty
        /\ m1.frames[i].pinCount = m2.frames[i].pinCount

\* pinPage(pid) misses and finds no empty frame: selectVictim is called.
Evicting(m, pid) == pid >= 0 /\ findPage(m, pid) = NULL /\ findFree(m) = NULL

\* The FIFO queue from its head on.
FifoSeq(m) ==
    [k \in 1 .. m.fifoCount |-> m.fifoQ[(m.fifoHead + k - 1) % m.capacity]]

\* The longest prefix of q whose frames are pinned: the entries a scan skips.
RECURSIVE PinnedPrefix(_, _)
PinnedPrefix(m, q) ==
    IF q = <<>> \/ m.frames[Head(q)].pinCount = 0 THEN <<>>
    ELSE <<Head(q)>> \o PinnedPrefix(m, Tail(q))

RECURSIVE IsSubseq(_, _)
IsSubseq(a, b) ==
    IF a = <<>> THEN TRUE
    ELSE IF b = <<>> THEN FALSE
    ELSE IF Head(a) = Head(b) THEN IsSubseq(Tail(a), Tail(b))
    ELSE IsSubseq(a, Tail(b))

\* The first frame of q that is not pinned, NULL if there is none.
FirstUnpinned(m, q) ==
    LET ks == {k \in 1 .. Len(q) : m.frames[q[k]].pinCount = 0}
    IN  IF ks = {} THEN NULL
        ELSE q[CHOOSE k \in ks : \A j \in ks : k <= j]

\* C1 (pin safety): in every step of an initialised pool, a frame whose
\* pinCount is above 0 keeps its pageId, and the frame selectVictim returns
\* for any pinPage is one whose pinCount is 0.
C1_PinSafety ==
    [][(mgmtData /\ mgmtData') =>
         /\ \A i \in FrameIdx :
                Pinned(md, i) => md'.frames[i].pageId = md.frames[i].pageId
         /\ \A pid \in PageIds :
                LET r == pinPage(md, disk, pid, IoOK)
                IN  r.victim => ~Pinned(md, r.slot)]_vars

\* A pinPage has just evicted a frame while the other frames stayed pinned.
C1_Witness ==
    /\ mgmtData
    /\ ret.op = "pinPage" /\ ret.victim
    /\ \A i \in FrameIdx : Pinned(md, i)

\* C2 (FIFO retention), as the claim states it: under RS_FIFO, the entries a
\* victim scan skips because their frames are pinned are all still in the
\* queue after the pinPage, in their order.
C2_FifoRetention ==
    [][\A pid \in PageIds :
         (mgmtData /\ md.strat = RS_FIFO /\ Evicting(md, pid) /\ PinPage(pid))
         => IsSubseq(PinnedPrefix(md, FifoSeq(md)), FifoSeq(md'))]_vars

\* C3 (victim availability), as the claim states it: whenever some frame is
\* empty or has pinCount 0, pinPage of any page id >= 0 returns RC_OK.
C3_VictimAvailability ==
    mgmtData =>
      \A pid \in PageIds :
        (\E i \in FrameIdx : ~Resident(md, i) \/ ~Pinned(md, i))
        => pinPage(md, disk, pid, IoOK).rc = RC_OK

\* C4 (all pinned): when every frame is resident and pinned, pinPage of a
\* page that is not resident returns RC_READ_NON_EXISTING_PAGE and leaves the
\* frame contents, dirty flags, fix counts, readIO, writeIO and the file as
\* they are.
C4_AllPinned ==
    (mgmtData /\ AllPinned(md)) =>
      \A pid \in PageIds :
        findPage(md, pid) = NULL =>
          LET r == pinPage(md, disk, pid, IoOK)
          IN  /\ r.rc = RC_READ_NON_EXISTING_PAGE
              /\ SameFrameState(r.md, md)
              /\ r.md.readIO = md.readIO
              /\ r.md.writeIO = md.writeIO
              /\ r.disk = disk

\* Every frame is pinned and a pinPage has failed on them: under RS_FIFO its
\* scan has left the queue empty.
C4_Witness ==
    /\ mgmtData
    /\ AllPinned(md)
    /\ md.strat = RS_FIFO
    /\ md.fifoCount = 0

\* C5 (FIFO victim order), as the claim states it: under RS_FIFO the frame a
\* pinPage evicts is the unpinned frame that was loaded earliest (loadSeq
\* lists the frames in the order of their latest load).
C5_FifoVictimOrder ==
    (mgmtData /\ md.strat = RS_FIFO) =>
      \A pid \in PageIds :
        LET r == pinPage(md, disk, pid, IoOK)
        IN  r.victim => r.slot = FirstUnpinned(md, loadSeq)

\* The LRU list pointers of the pool.
LruList(m) ==
    [head |-> m.lruHead, tail |-> m.lruTail,
     prev |-> [i \in FrameIdx |-> m.frames[i].prev],
     next |-> [i \in FrameIdx |-> m.frames[i].next]]

\* C6 (LRU victim order): under RS_LRU every successful pinPage, hit or miss,
\* leaves its frame at the head of the list; unpinPage, markDirty and
\* forcePage leave the list as it is; and the frame a pinPage evicts is the
\* unpinned frame whose latest pin is the oldest (useSeq lists the frames in
\* the order of their latest successful pin).
C6_LruVictimOrder ==
    (mgmtData /\ md.strat = RS_LRU) =>
      \A pid \in Handles :
        LET r == pinPage(md, disk, pid, IoOK)
        IN  /\ r.rc = RC_OK => r.md.lruHead = r.slot
            /\ r.victim => r.slot = FirstUnpinned(md, useSeq)
            /\ LruList(unpinPage(md, pid).md) = LruList(md)
            /\ LruList(markDirty(md, pid).md) = LruList(md)
            /\ LruList(forcePage(md, disk, pid, IoOK).md) = LruList(md)

\* Under RS_LRU a pinPage has just evicted a frame that was not the one
\* loaded first: a hit had moved the first one to the head.
C6_Witness ==
    /\ mgmtData /\ md.strat = RS_LRU
    /\ ret.op = "pinPage" /\ ret.victim
    /\ md.readIO = NumFrames + 1
    /\ md.frames[0].pageId = 0
    /\ md.lruHead # 0

\* The pages of the file d that r.disk holds with another content.
Rewritten(d, d2) == {p \in 1 .. Len(d) : d2[p] # d[p]}

\* C7 (dirty eviction): a pinPage that evicts a dirty frame writes the
\* frame's data to the frame's old page (and to no other page) before it
\* reads the new page into the frame, and adds 1 to writeIO; a pinPage that
\* evicts a clean frame rewrites no page and leaves writeIO as it is.
C7_DirtyEviction ==
    mgmtData =>
      \A pid \in PageIds :
        LET r == pinPage(md, disk, pid, IoOK)
            f == md.frames[r.slot]
        IN  r.victim =>
              /\ r.md.frames[r.slot].data = r.disk[pid + 1]
              /\ IF f.isDirty
                 THEN /\ r.disk[f.pageId + 1] = f.data
                      /\ Rewritten(disk, r.disk) \subseteq {f.pageId + 1}
                      /\ r.md.writeIO = md.writeIO + 1
                 ELSE /\ Rewritten(disk, r.disk) = {}
                      /\ r.md.writeIO = md.writeIO

\* A pinPage has just evicted a dirty frame and written it: page 0 of the
\* file holds a value that only a client can have put into a frame.
C7_Witness ==
    /\ mgmtData
    /\ ret.op = "pinPage" /\ ret.victim /\ ret.wrote = 1
    /\ findPage(md, 0) = NULL
    /\ disk[1] # 0

\* C8 (residency uniqueness): no two frames hold the same page.
C8_ResidencyUniqueness ==
    mgmtData =>
      \A i, j \in FrameIdx :
        (i # j /\ Resident(md, i)) => md.frames[i].pageId # md.frames[j].pageId

\* Every frame is resident after as many loads as the model allows: pages
\* have been evicted and loaded again.
C8_Witness ==
    /\ mgmtData
    /\ \A i \in FrameIdx : Resident(md, i)
    /\ md.readIO = MaxReadIO

\* C9 (durability at flush), as the claim states it: when forceFlushPool
\* returns RC_OK, every frame is clean or pinned afterwards, and the page on
\* disk of every frame it cleaned holds the frame's data.
C9_DurabilityAtFlush ==
    mgmtData =>
      LET r == forceFlushPool(md, disk, IoOK)
      IN  r.rc = RC_OK =>
            \A i \in FrameIdx :
              /\ ~r.md.frames[i].isDirty \/ r.md.frames[i].pinCount > 0
              /\ (md.frames[i].isDirty /\ ~r.md.frames[i].isDirty)
                 => r.disk[md.frames[i].pageId + 1] = md.frames[i].data

\* C10 (shutdown durability): for every frame that is resident, dirty and
\* unpinned when shutdownBufferPool is called, the page on disk holds the
\* frame's data after the call, and pinPage of that page on a pool
\* initialised again on the file returns that data.
C10_ShutdownDurability ==
    mgmtData =>
      LET r == shutdownBufferPool(md, disk, IoOK)
      IN  /\ r.rc = RC_OK
          /\ \A i \in FrameIdx :
               flushable(md.frames[i]) =>
                 /\ r.disk[md.frames[i].pageId + 1] = md.frames[i].data
                 /\ \A s \in Strategies :
                      LET p == pinPage(initMd(r.disk, NumFrames, s), r.disk,
                                       md.frames[i].pageId, IoOK)
                      IN  /\ p.rc = RC_OK
                          /\ p.md.frames[p.slot].pageId = md.frames[i].pageId
                          /\ p.md.frames[p.slot].data = md.frames[i].data

\* shutdownBufferPool has just written a frame and the one page of the file
\* holds a value a client put into a frame.
C10_Witness ==
    /\ ~mgmtData
    /\ ret.op = "shutdownBufferPool" /\ ret.wrote = 1
    /\ Len(disk) = 1
    /\ disk[1] # 0

\* The outcomes of the operating-system calls of one API call: each fwrite
\* and fread either transfers the whole page or fails.
IoOutcomes == [w : BOOLEAN, a : BOOLEAN, r : BOOLEAN]

\* C11 (no silent loss at shutdown), as the claim states it: for every frame
\* that is resident, dirty and pinned when shutdownBufferPool is called, the
\* call either leaves the frame's data in the frame's page on disk or
\* returns a code other than RC_OK.
C11_NoSilentLoss ==
    mgmtData =>
      LET r == shutdownBufferPool(md, disk, IoOK)
      IN  \A i \in FrameIdx :
            (Resident(md, i) /\ md.frames[i].isDirty /\ Pinned(md, i))
            => \/ r.disk[md.frames[i].pageId + 1] = md.frames[i].data
               \/ r.rc # RC_OK

\* The number of frames forceFlushPool has to write.
NumFlushable(m) == Cardinality({i \in FrameIdx : flushable(m.frames[i])})

\* pinPage(pid) finds a frame to load pid into: an empty one or a victim.
FindsSlot(m, pid) ==
    /\ pid >= 0 /\ findPage(m, pid) = NULL
    /\ findFree(m) # NULL \/ selectVictim(m).slot # NULL

\* The load of page pid by pinPage fails: an append of ensureCapacity fails
\* or the fread of readBlock fails.
LoadFails(m, pid, io) == ~io.r \/ (pid >= m.fh.totalNumPages /\ ~io.a)

\* The write-back pinPage(pid) makes of its victim: [dirty, ok].
WriteBack(m, d, pid, io) ==
    LET v == selectVictim(m)
    IN  IF Evicting(m, pid) /\ v.slot # NULL /\ m.frames[v.slot].isDirty
        THEN [dirty |-> TRUE,
              ok |-> writeBlock(m.frames[v.slot].pageId, v.md.fh, d,
                                m.frames[v.slot].data, io).rc = RC_OK]
        ELSE [dirty |-> FALSE, ok |-> FALSE]

\* 1 if b, 0 otherwise.
Count(b) == IF b THEN 1 ELSE 0

\* C12 (accounting), as the claim states it: every call adds to readIO the
\* number of page loads it made that succeeded and to writeIO the number of
\* page writes it made that succeeded, whatever the handle and whatever the
\* outcome of the I/O; a read or write that fails or is not made is not
\* counted.
C12_Accounting ==
    mgmtData =>
      \A io \in IoOutcomes :
        /\ \A pid \in Handles :
             LET r == forcePage(md, disk, pid, io)
                 i == findPage(md, pid)
                 ok == /\ i # NULL
                       /\ writeBlock(pid, md.fh, disk, md.frames[i].data, io).rc
                            = RC_OK
             IN  /\ r.md.writeIO = md.writeIO + Count(ok)
                 /\ r.md.readIO = md.readIO
        /\ \A pid \in Handles :
             LET r == pinPage(md, disk, pid, io)
                 wb == WriteBack(md, disk, pid, io)
             IN  /\ r.md.readIO = md.readIO
                        + Count(FindsSlot(md, pid) /\ ~LoadFails(md, pid, io))
                 /\ r.md.writeIO = md.writeIO + Count(wb.dirty /\ wb.ok)
        /\ LET r == forceFlushPool(md, disk, io)
           IN  /\ r.md.writeIO = md.writeIO + (IF io.w THEN NumFlushable(md) ELSE 0)
               /\ r.md.readIO = md.readIO

\* The frame pinPage(pid) loads into on a miss: the first empty frame, or
\* the victim.
LoadSlot(m) == IF findFree(m) # NULL THEN findFree(m) ELSE selectVictim(m).slot

\* C13 (failed write-back aborts pin), as the claim states it: when the
\* writeBlock of a dirty victim fails, pinPage returns the error of the
\* write, the victim keeps its pageId, data and isDirty, the requested page
\* is not resident afterwards, and readIO and writeIO are unchanged.
C13_FailedWriteBack ==
    mgmtData =>
      \A pid \in PageIds, io \in IoOutcomes :
        LET wb == WriteBack(md, disk, pid, io)
            s == selectVictim(md).slot
            r == pinPage(md, disk, pid, io)
        IN  (wb.dirty /\ ~wb.ok) =>
              /\ r.rc = RC_WRITE_FAILED
              /\ r.md.frames[s].pageId = md.frames[s].pageId
              /\ r.md.frames[s].data = md.frames[s].data
              /\ r.md.frames[s].isDirty
              /\ findPage(r.md, pid) = NULL
              /\ r.md.readIO = md.readIO
              /\ r.md.writeIO = md.writeIO

\* C14 (failed load keeps the frame consistent), as the claim states it:
\* when pinPage has a frame for a missing page and growing the file or
\* reading the page fails, pinPage returns an error, readIO is unchanged, and
\* the frame still holds its previous page or is empty (pageId NO_PAGE, not
\* dirty, pinCount 0).
C14_FailedLoad ==
    mgmtData =>
      \A pid \in PageIds, io \in IoOutcomes :
        LET wb == WriteBack(md, disk, pid, io)
            s == LoadSlot(md)
            r == pinPage(md, disk, pid, io)
        IN  (FindsSlot(md, pid) /\ LoadFails(md, pid, io) /\ (wb.dirty => wb.ok))
            => /\ r.rc # RC_OK
               /\ r.md.readIO = md.readIO
               /\ \/ /\ Resident(md, s)
                     /\ r.md.frames[s].pageId = md.frames[s].pageId
                  \/ /\ r.md.frames[s].pageId = NO_PAGE
                     /\ ~r.md.frames[s].isDirty
                     /\ r.md.frames[s].pinCount = 0

\* Page p holds v for the clients of the pool: it is resident with data v,
\* and dirty or equal to the page on disk, or it is not resident and the page
\* on disk is v.
Durable(m, d, p, v) ==
    LET i == findPage(m, p)
        onDisk == p < Len(d) /\ d[p + 1] = v
    IN  IF i # NULL THEN m.frames[i].data = v /\ (m.frames[i].isDirty \/ onDisk)
        ELSE onDisk

\* C15 (round trip): a successful markDirty of page p makes the frame's data
\* the value p holds; every call on an initialised pool (pinPage with its
\* evictions, unpinPage, markDirty, forcePage, forceFlushPool, with any
\* handle, under either strategy) keeps the value p holds; and pinPage(p)
\* returns a frame with that value.
C15_RoundTrip ==
    mgmtData =>
      LET Keeps(m2, d2) ==
            \A p \in PageIds, v \in Vals :
              Durable(md, disk, p, v) => Durable(m2, d2, p, v)
      IN  /\ \A p \in PageIds :
               LET k == markDirty(md, p)
                   r == pinPage(md, disk, p, IoOK)
               IN  /\ k.rc = RC_OK =>
                        Durable(k.md, disk, p, md.frames[findPage(md, p)].data)
                   /\ \A v \in Vals :
                        (Durable(md, disk, p, v) /\ r.rc = RC_OK)
                        => r.md.frames[r.slot].data = v
          /\ \A h \in Handles :
               LET r == pinPage(md, disk, h, IoOK)
                   f == forcePage(md, disk, h, IoOK)
               IN  /\ Keeps(r.md, r.disk)
                   /\ Keeps(unpinPage(md, h).md, disk)
                   /\ Keeps(markDirty(md, h).md, disk)
                   /\ Keeps(f.md, f.disk)
          /\ LET r == forceFlushPool(md, disk, IoOK)
             IN  Keeps(r.md, r.disk)

\* Under RS_LRU the latest call, a pinPage of page 0 that evicted a frame,
\* has read back from disk a value a client had put into page 0.
C15_Witness ==
    /\ mgmtData /\ md.strat = RS_LRU
    /\ ret.op = "pinPage" /\ ret.victim
    /\ md.lruHead # NULL
    /\ md.frames[md.lruHead].pageId = 0
    /\ md.frames[md.lruHead].data # 0

\* C16 (empty-frame invariant), as the claim states it: every frame whose
\* pageId is NO_PAGE has isDirty false and pinCount 0.
C16_EmptyFrame ==
    mgmtData =>
      \A i \in FrameIdx :
        ~Resident(md, i) => ~md.frames[i].isDirty /\ md.frames[i].pinCount = 0

\* Some frame of the pool holds page h.
Holds(m, h) == \E i \in FrameIdx : Resident(m, i) /\ m.frames[i].pageId = h

\* C17 (unpin): when the handle's page is resident with pinCount above 0,
\* unpinPage returns RC_OK and takes 1 from that pinCount, everything else
\* of the pool (other frames, dirty flags, FIFO queue, LRU list, counters)
\* staying as it is; otherwise it returns RC_READ_NON_EXISTING_PAGE and
\* changes nothing; no pinCount is ever negative.
C17_Unpin ==
    mgmtData =>
      /\ \A i \in FrameIdx : md.frames[i].pinCount >= 0
      /\ \A h \in Handles :
           LET r == unpinPage(md, h)
               i == findPage(md, h)
           IN  IF Holds(md, h) /\ Pinned(md, i)
               THEN /\ r.rc = RC_OK
                    /\ r.md = [md EXCEPT !.frames[i].pinCount =
                                            md.frames[i].pinCount - 1]
               ELSE /\ r.rc = RC_READ_NON_EXISTING_PAGE
                    /\ r.md = md

\* An unpinPage has just brought the pinCount of a resident frame to 0.
C17_Witness ==
    /\ mgmtData
    /\ ret.op = "unpinPage" /\ ret.rc = RC_OK
    /\ \E i \in FrameIdx : Resident(md, i) /\ ~Pinned(md, i)

\* C18 (mark_dirty), as the claim states it: for a handle whose page some
\* frame holds, markDirty returns RC_OK and sets that frame's isDirty and
\* nothing else; for a handle whose page id no resident frame holds, NO_PAGE
\* included, it returns RC_READ_NON_EXISTING_PAGE and changes no frame.
C18_MarkDirty ==
    mgmtData =>
      \A h \in Handles :
        LET r == markDirty(md, h)
            i == findPage(md, h)
        IN  IF Holds(md, h)
            THEN /\ r.rc = RC_OK
                 /\ r.md = [md EXCEPT !.frames[i].isDirty = TRUE]
            ELSE /\ r.rc = RC_READ_NON_EXISTING_PAGE
                 /\ r.md = md

\* C19 (force_page), as the claim states it: for a handle whose page is
\* resident, forcePage writes the frame's data to the page on disk, adds 1
\* to writeIO, clears isDirty and leaves pinCount; for a handle whose page
\* id no resident frame holds, NO_PAGE included, it returns a code other
\* than RC_OK, writes nothing and leaves writeIO and every frame as it is.
C19_ForcePage ==
    mgmtData =>
      \A h \in Handles :
        LET r == forcePage(md, disk, h, IoOK)
            i == findPage(md, h)
        IN  IF Holds(md, h)
            THEN /\ r.rc = RC_OK
                 /\ r.disk = [disk EXCEPT ![h + 1] = md.frames[i].data]
                 /\ r.md.writeIO = md.writeIO + 1
                 /\ r.md.frames = [md.frames EXCEPT ![i].isDirty = FALSE]
            ELSE /\ r.rc # RC_OK
                 /\ r.disk = disk
                 /\ r.md.writeIO = md.writeIO
                 /\ r.md.frames = md.frames

\* C20 (pin miss result): a pinPage of a page that is not resident, when it
\* returns RC_OK, has used the empty frame of lowest index if there is an
\* empty frame and the victim otherwise; that frame then has pageId = pid,
\* isDirty false, pinCount 1 and the bytes of page pid on disk, and readIO is
\* one higher.  (The handle gets pid and a pointer to that frame's data.)
C20_PinMiss ==
    mgmtData =>
      \A pid \in PageIds :
        LET r == pinPage(md, disk, pid, IoOK)
            empties == {i \in FrameIdx : ~Resident(md, i)}
        IN  (~Holds(md, pid) /\ r.rc = RC_OK) =>
              /\ IF empties # {}
                 THEN r.slot \in empties /\ \A i \in empties : r.slot <= i
                 ELSE r.slot = selectVictim(md).slot /\ r.victim
              /\ r.md.frames[r.slot].pageId = pid
              /\ ~r.md.frames[r.slot].isDirty
              /\ r.md.frames[r.slot].pinCount = 1
              /\ pid < Len(r.disk)
              /\ r.md.frames[r.slot].data = r.disk[pid + 1]
              /\ r.md.readIO = md.readIO + 1

\* The first pinPage of a session has loaded its page into frame 0 and left
\* the other frames empty.
C20_Witness ==
    /\ mgmtData
    /\ ret.op = "pinPage" /\ ~ret.victim
    /\ md.readIO = 1
    /\ Resident(md, 0) /\ md.frames[0].pinCount = 1
    /\ \A i \in FrameIdx \ {0} : ~Resident(md, i)

\* C21 (pin hit): pinPage of a resident page returns RC_OK whatever the I/O
\* would do, adds 1 to the pinCount of the frame holding it and to no other,
\* leaves every pageId, data, isDirty, readIO, writeIO, the file and its
\* handle as they are, and under RS_FIFO leaves the queue as it is.
C21_PinHit ==
    mgmtData =>
      \A pid \in PageIds, io \in IoOutcomes :
        Holds(md, pid) =>
          LET r == pinPage(md, disk, pid, io)
              i == findPage(md, pid)
          IN  /\ r.rc = RC_OK /\ r.slot = i /\ ~r.victim
              /\ \A j \in FrameIdx :
                   /\ r.md.frames[j].pageId = md.frames[j].pageId
                   /\ r.md.frames[j].data = md.frames[j].data
                   /\ r.md.frames[j].isDirty = md.frames[j].isDirty
                   /\ r.md.frames[j].pinCount =
                        md.frames[j].pinCount + Count(j = i)
              /\ r.md.readIO = md.readIO /\ r.md.writeIO = md.writeIO
              /\ r.disk = disk /\ r.md.fh = md.fh
              /\ md.strat = RS_FIFO => r.md = [md EXCEPT !.frames = r.md.frames]

\* A pinPage has just hit a frame that was pinned already.
C21_Witness ==
    /\ mgmtData
    /\ ret.op = "pinPage" /\ ~ret.victim
    /\ \E i \in FrameIdx : md.frames[i].pinCount = 2

\* What a pinPage(pid) beyond the end of the file does to the file and the
\* frame, for result r: the file has exactly pid + 1 pages, the new ones are
\* zero, the frame holds zeros, readIO is one higher.
GrowsTo(r, pid) ==
    /\ Len(r.disk) = pid + 1
    /\ r.md.fh.totalNumPages = pid + 1
    /\ \A p \in (Len(disk) + 1) .. (pid + 1) : r.disk[p] = 0
    /\ r.md.frames[r.slot].pageId = pid
    /\ r.md.frames[r.slot].data = 0
    /\ r.md.readIO = md.readIO + 1

\* C22 (pin beyond end of file), amended: a pinPage of a page id at or beyond
\* totalNumPages that returns RC_OK grows the file to exactly pid + 1 pages,
\* the new pages zero, loads page pid as zeros and adds 1 to readIO; writeIO
\* is unchanged when the frame used was empty or clean, and one higher when
\* the call wrote back a dirty victim.  The appended pages are not counted.
C22_PinBeyondEof ==
    mgmtData =>
      \A pid \in PageIds :
        LET r == pinPage(md, disk, pid, IoOK)
        IN  (pid >= md.fh.totalNumPages /\ r.rc = RC_OK) =>
              /\ GrowsTo(r, pid)
              /\ r.md.writeIO = md.writeIO
                   + Count(r.victim /\ md.frames[r.slot].isDirty)

\* C22 as the claim states it: such a pinPage leaves writeIO as it is.
C22_Original ==
    mgmtData =>
      \A pid \in PageIds :
        LET r == pinPage(md, disk, pid, IoOK)
        IN  (pid >= md.fh.totalNumPages /\ r.rc = RC_OK) =>
              /\ GrowsTo(r, pid)
              /\ r.md.writeIO = md.writeIO

\* Under RS_LRU the third load of a session, of page 2, has written back a
\* dirty victim and grown the file to three pages.
C22_Witness ==
    /\ mgmtData /\ md.strat = RS_LRU
    /\ ret.op = "pinPage" /\ ret.victim /\ ret.wrote = 1
    /\ md.readIO = 3
    /\ md.lruHead # NULL /\ md.frames[md.lruHead].pageId = 2
    /\ Len(disk) = 3

\* C23 (pool unusable after shutdown): while the pool is shut down, every
\* step is either an initBufferPool or a call that returns
\* RC_FILE_HANDLE_NOT_INIT and leaves the file and the pool as they are.
C23_UnusableAfterShutdown ==
    [][~mgmtData =>
         \/ mgmtData' /\ ret'.op = "initBufferPool"
         \/ /\ ret'.rc = RC_FILE_HANDLE_NOT_INIT
            /\ ret'.op \in {"pinPage", "unpinPage", "markDirty", "forcePage",
                            "forceFlushPool", "shutdownBufferPool"}
            /\ disk' = disk /\ md' = md /\ ~mgmtData']_vars

\* A pinPage on a pool that is shut down has just been refused.
C23_Witness ==
    /\ ~mgmtData
    /\ ret.op = "pinPage"
    /\ ret.rc = RC_FILE_HANDLE_NOT_INIT

\* C24 (bounded I/O per call), as the claim states it: a pinPage writes at
\* most one page to the file (write-back or appended page) and reads at most
\* one, and none on a hit, for every page id.
C24_BoundedIO ==
    mgmtData =>
      \A pid \in PageIds :
        LET r == pinPage(md, disk, pid, IoOK)
            written == (Len(r.disk) - Len(disk)) + (r.md.writeIO - md.writeIO)
            read == r.md.readIO - md.readIO
        IN  /\ written <= 1 /\ read <= 1
            /\ Holds(md, pid) => written = 0 /\ read = 0


\* ----------------------------------------------------------- C25 .. C30

\* C25: on an open handle writeBlock(i, buf) with i >= totalNumPages, its
\* fwrite calls succeeding, extends the file to exactly i + 1 pages, every
\* page it adds other than i zero-filled, stores buf in page i and sets the
\* cursor to i; the readBlock(i) that follows returns buf; the pages the
\* file had are unchanged.
C25_WriteGrows ==
    \A h \in HandleIds : Valid(h) =>
        \A i \in 0 .. (MaxFilePages - 1), buf \in Vals :
            LET fh == fhOf(h)
                d == dataOf(h)
                w == writeBlock(i, fh, d, buf, IoOK)
                rd == readBlock(i, w.fh, w.disk, 1 - buf, TRUE)
            IN  i >= fh.totalNumPages =>
                    /\ w.rc = RC_OK
                    /\ Len(w.disk) = i + 1
                    /\ w.fh.totalNumPages = i + 1
                    /\ \A p \in 1 .. i :
                           w.disk[p] = IF p <= Len(d) THEN d[p] ELSE 0
                    /\ w.disk[i + 1] = buf
                    /\ w.fh.curPagePos = i
                    /\ rd.rc = RC_OK
                    /\ rd.mem = buf
                    /\ rd.fh.curPagePos = i

\* writeBlock(2, buf) on the one-page file has added pages 1 and 2.
C25_Witness ==
    /\ smRet.op = "writeBlock" /\ smRet.rc = RC_OK /\ smRet.grew = 2
    /\ Valid("a")
    /\ files["a"] = [exists |-> TRUE, pages |-> <<0, 0, 1>>, tail |-> FALSE]
    /\ handle["a"].curPagePos = 2

\* C26: on an open handle readBlock(i), its fread succeeding, returns RC_OK
\* exactly when 0 <= i < totalNumPages; readPreviousBlock at cursor 0,
\* readNextBlock at cursor totalNumPages - 1 and every read outside the file
\* return RC_READ_NON_EXISTING_PAGE and leave the handle as it is; a read
\* that succeeds returns the page and sets the cursor to it and changes
\* nothing else of the handle.
C26_ReadBounds ==
    \A h \in HandleIds : Valid(h) =>
        LET fh == fhOf(h)
            d == dataOf(h)
            Fails(r) == r.rc = RC_READ_NON_EXISTING_PAGE /\ r.fh = fh
            Reads(r, p) ==
                IF 0 <= p /\ p < fh.totalNumPages
                THEN /\ r.rc = RC_OK
                     /\ r.fh = [fh EXCEPT !.curPagePos = p]
                     /\ r.mem = d[p + 1]
                ELSE Fails(r)
        IN  /\ \A i \in FilePageIds :
                   /\ Reads(readBlock(i, fh, d, MaxVal + 1, TRUE), i)
                   /\ Fails(readBlock(i, fh, d, MaxVal + 1, FALSE))
            /\ Reads(readFirstBlock(fh, d, MaxVal + 1, TRUE), 0)
            /\ Reads(readPreviousBlock(fh, d, MaxVal + 1, TRUE), fh.curPagePos - 1)
            /\ Reads(readCurrentBlock(fh, d, MaxVal + 1, TRUE), fh.curPagePos)
            /\ Reads(readNextBlock(fh, d, MaxVal + 1, TRUE), fh.curPagePos + 1)
            /\ Reads(readLastBlock(fh, d, MaxVal + 1, TRUE), fh.totalNumPages - 1)
            /\ fh.curPagePos = 0 =>
                   Fails(readPreviousBlock(fh, d, MaxVal + 1, TRUE))
            /\ fh.curPagePos = fh.totalNumPages - 1 =>
                   Fails(readNextBlock(fh, d, MaxVal + 1, TRUE))

\* readNextBlock has moved the cursor to the last of three pages: the next
\* readNextBlock is at the boundary.
C26_Witness ==
    /\ smRet.op = "readNextBlock" /\ smRet.rc = RC_OK
    /\ Valid("a")
    /\ handle["a"].totalNumPages = 3
    /\ handle["a"].curPagePos = 2

\* C27: on an open handle ensureCapacity(n), its fwrite calls succeeding,
\* returns RC_OK with totalNumPages = max(old totalNumPages, n), the pages
\* it adds zero, the others unchanged, and with the file and the handle
\* unchanged when totalNumPages >= n already; appendEmptyBlock adds exactly
\* one zero page and sets the cursor to it; no read, write, append or
\* ensureCapacity, whatever its outcome, decreases totalNumPages.
C27_EnsureCapacity ==
    \A h \in HandleIds : Valid(h) =>
        LET fh == fhOf(h)
            d == dataOf(h)
            a == appendEmptyBlock(fh, d, TRUE)
            Keeps(r) == r.fh.totalNumPages >= fh.totalNumPages
        IN  /\ \A n \in 0 .. MaxFilePages :
                   LET e == ensureCapacity(n, fh, d, TRUE)
                       m == IF fh.totalNumPages >= n THEN fh.totalNumPages ELSE n
                   IN  /\ e.rc = RC_OK
                       /\ e.fh.totalNumPages = m
                       /\ Len(e.disk) = m
                       /\ \A p \in 1 .. m :
                              e.disk[p] = IF p <= Len(d) THEN d[p] ELSE 0
                       /\ fh.totalNumPages >= n => e.fh = fh /\ e.disk = d
            /\ a.rc = RC_OK
            /\ a.disk = Append(d, 0)
            /\ a.fh.totalNumPages = fh.totalNumPages + 1
            /\ a.fh.curPagePos = fh.totalNumPages
            /\ \A ok \in BOOLEAN :
                   /\ Keeps(appendEmptyBlock(fh, d, ok))
                   /\ Keeps(readFirstBlock(fh, d, 0, ok))
                   /\ Keeps(readPreviousBlock(fh, d, 0, ok))
                   /\ Keeps(readCurrentBlock(fh, d, 0, ok))
                   /\ Keeps(readNextBlock(fh, d, 0, ok))
                   /\ Keeps(readLastBlock(fh, d, 0, ok))
                   /\ \A n \in FilePageIds :
                          /\ Keeps(ensureCapacity(n, fh, d, ok))
                          /\ Keeps(readBlock(n, fh, d, 0, ok))
            /\ \A io \in IoOutcomes, v \in Vals :
                   /\ Keeps(writeCurrentBlock(fh, d, v, io))
                   /\ \A i \in FilePageIds : Keeps(writeBlock(i, fh, d, v, io))

\* ensureCapacity(3) on the one-page file has added two zero pages.
C27_Witness ==
    /\ smRet.op = "ensureCapacity" /\ smRet.rc = RC_OK /\ smRet.grew = 2
    /\ Valid("a")
    /\ files["a"].pages = <<0, 0, 0>>
    /\ handle["a"].totalNumPages = 3
    /\ handle["a"].curPagePos = 2

\* C28: every file is a whole number of pages long, the totalNumPages of an
\* open handle is that number, and a file createPageFile returned RC_OK for
\* is one zero page.
C28_DiskLength ==
    /\ \A n \in FileNames : files[n].exists => ~files[n].tail
    /\ \A h \in HandleIds : Valid(h) =>
           /\ ~fileOf(Ctx(h)).tail
           /\ handle[h].totalNumPages = Len(fileOf(Ctx(h)).pages)
    /\ (smRet.op = "createPageFile" /\ smRet.rc = RC_OK) =>
           files[smRet.name] = [exists |-> TRUE, pages |-> <<0>>, tail |-> FALSE]

\* C29: no call was killed for using a freed context, and on a handle whose
\* file is closed the calls that return before they reach the context
\* return RC_FILE_HANDLE_NOT_INIT.
C29_ClosedHandle ==
    /\ smRet.rc # SIGNAL
    /\ \A h \in HandleIds : ~Valid(h) =>
           /\ ensureCapacity(0, fhOf(h), dataOf(h), TRUE).rc = RC_FILE_HANDLE_NOT_INIT
           /\ readBlock(-1, fhOf(h), dataOf(h), 0, TRUE).rc = RC_FILE_HANDLE_NOT_INIT

\* C30: destroyPageFile(n) of a file that does not exist returns
\* RC_FILE_NOT_FOUND; with a context open on n it frees that context and
\* removes the file.
C30_DestroyClosesFirst ==
    \A n \in FileNames, unlink \in BOOLEAN :
        LET r == destroyPageFile(n, files, heap, globalOpenCtx, unlink)
        IN  /\ ~files[n].exists => r.rc = RC_FILE_NOT_FOUND /\ r.files = files
            /\ \A c \in CtxIds :
                   (heap[c].live /\ heap[c].linked /\ heap[c].fname = n) =>
                       /\ ~r.heap[c].live
                       /\ r.rc = RC_OK
                       /\ ~r.files[n].exists


\* The metadata pinPage(pid) has when it reaches enqueueFIFO on a miss: md
\* itself if an empty frame is taken, md after selectVictim otherwise.
BeforeEnqueue(m) ==
    IF findFree(m) >= 0 THEN m ELSE selectVictim(m).md

\* C31 (FIFO ring well-formedness): while the pool is initialised under
\* RS_FIFO, fifoCount lies in 0 .. capacity, the queued entries are pairwise
\* distinct frame indices, each of a resident frame, and every enqueue a
\* pinPage can make finds fifoCount below capacity, so that it writes a cell
\* outside the live part of the ring and the queue afterwards is the queue
\* before with the loaded frame appended.
C31_FifoRing ==
    (mgmtData /\ md.strat = RS_FIFO) =>
      LET q == FifoSeq(md)
      IN  /\ md.fifoCount >= 0
          /\ md.fifoCount <= md.capacity
          /\ \A k \in 1 .. Len(q) : q[k] \in FrameIdx /\ Resident(md, q[k])
          /\ \A j, k \in 1 .. Len(q) : j # k => q[j] # q[k]
          /\ \A pid \in PageIds : \A io \in IoOutcomes :
               LET r == pinPage(md, disk, pid, io)
                   pre == BeforeEnqueue(md)
               IN  (findPage(md, pid) = NULL /\ r.rc = RC_OK) =>
                     /\ pre.fifoCount < pre.capacity
                     /\ ~(r.slot \in {FifoSeq(pre)[k] : k \in 1 .. pre.fifoCount})
                     /\ FifoSeq(r.md) = Append(FifoSeq(pre), r.slot)

\* A pinPage has just evicted a frame under RS_FIFO and the ring is full
\* again, its head having moved round.
C31_Witness ==
    /\ mgmtData
    /\ md.strat = RS_FIFO
    /\ ret.op = "pinPage"
    /\ ret.victim
    /\ md.fifoCount = md.capacity
    /\ md.fifoHead # 0


\* What getFixCounts(bm) returns: pinCount of every frame.
getFixCounts(m) == [i \in DOMAIN m.frames |-> m.frames[i].pinCount]

\* C32 (pin-count conservation): while the pool is initialised, pinCount of
\* every resident frame equals the number of successful pins of the frame's
\* page less the number of successful unpins of that page since the page
\* was last loaded, the load being the first of those pins; getFixCounts
\* reports that number for the frame, and an empty frame has pinCount 0.
C32_PinConservation ==
    mgmtData =>
      \A i \in FrameIdx :
        /\ Resident(md, i) =>
             /\ md.frames[i].pinCount = fixes[md.frames[i].pageId]
             /\ getFixCounts(md)[i] = fixes[md.frames[i].pageId]
        /\ ~Resident(md, i) => getFixCounts(md)[i] = 0

\* An unpinPage has just returned RC_OK after at least three loads: one
\* resident page has one handle out, another resident page has none.
C32_Witness ==
    /\ mgmtData
    /\ ret.op = "unpinPage"
    /\ ret.rc = RC_OK
    /\ \E i, j \in FrameIdx :
         /\ i # j
         /\ Resident(md, i) /\ md.frames[i].pinCount = 1
         /\ fixes[md.frames[i].pageId] = 1
         /\ md.readIO >= 3
         /\ Resident(md, j) /\ md.frames[j].pinCount = 0

====
